---- MODULE Spec2Model ----
(***************************************************************************)
(* RoutesMiddleware (routes/middleware.py): the WSGI middleware that       *)
(* resolves PATH_INFO to a route, optionally honouring a `_method`         *)
(* override, publishes the result in the environment, answers redirect     *)
(* routes itself and otherwise calls the wrapped application.              *)
(*                                                                         *)
(* Python strings are sequences of one-character strings, so that upper(), *)
(* lower(), `in`, split() and re.sub() are computed character by character.*)
(***************************************************************************)
EXTENDS Naturals, Sequences, FiniteSets, TLC

VARIABLES
    mw,             \* the middleware instance: singleton, use_method_override, path_info
    pc,             \* per worker: the place of its __call__ in the code
    environ,        \* per worker: the WSGI environment of the request it serves
    locals,         \* per worker: old_method, match, route, response of __call__
    deployment,     \* "shared": one match context for all workers; "isolated": one each
    config,         \* request_config(): per match context, what it holds
    mapper_environ, \* mapper.environ: the route table's environment binding
    entry,          \* per worker: the environment as it was on entry
    trace,          \* per worker: what the collaborators saw
    reqid,          \* per worker: the serial number of the request it serves
    nreq,           \* requests begun so far
    nurl            \* URLGenerator objects constructed so far

vars == <<mw, deployment, pc, environ, locals, config, mapper_environ, entry, trace, reqid, nreq, nurl>>

\* ------------------------------------------------------------------ bounds

MaxRequests == 2

Workers == {"w1", "w2"}

MainWorker == "w1"

\* ------------------------------------------------------------ python values

\* Python's None where a string is expected, and a key that is not in a mapping.
None == <<"None">>

Absent == <<"absent">>

\* No route object (Python None); route objects are the numbers 1..7.
NoRoute == 0

Lowers == <<"a", "b", "c", "d", "e", "f", "g", "h", "i", "j", "k", "l", "m", "n", "o", "p", "q", "r", "s", "t", "u", "v", "w", "x", "y", "z">>

Uppers == <<"A", "B", "C", "D", "E", "F", "G", "H", "I", "J", "K", "L", "M", "N", "O", "P", "Q", "R", "S", "T", "U", "V", "W", "X", "Y", "Z">>

UpperChar(c) ==
    IF \E i \in 1..Len(Lowers) : Lowers[i] = c
    THEN Uppers[CHOOSE i \in 1..Len(Lowers) : Lowers[i] = c]
    ELSE c

LowerChar(c) ==
    IF \E i \in 1..Len(Uppers) : Uppers[i] = c
    THEN Lowers[CHOOSE i \in 1..Len(Uppers) : Uppers[i] = c]
    ELSE c

\* str.upper()
Upper(s) == [i \in 1..Len(s) |-> UpperChar(s[i])]

\* str.lower()
Lower(s) == [i \in 1..Len(s) |-> LowerChar(s[i])]

\* sub in s
Contains(sub, s) ==
    \E i \in 1..(Len(s) + 1) :
        /\ i + Len(sub) - 1 <= Len(s)
        /\ SubSeq(s, i, i + Len(sub) - 1) = sub

\* s.startswith(p)
StartsWith(s, p) == Len(p) <= Len(s) /\ SubSeq(s, 1, Len(p)) = p

\* s.index(c): the place of the first c in s, 0 when there is none
Find(s, c) ==
    IF \E i \in 1..Len(s) : s[i] = c
    THEN CHOOSE i \in 1..Len(s) : s[i] = c /\ \A j \in 1..(i - 1) : s[j] # c
    ELSE 0

\* s.split(c, 1)
Split1(s, c) ==
    IF Find(s, c) = 0 THEN <<s>>
    ELSE <<SubSeq(s, 1, Find(s, c) - 1), SubSeq(s, Find(s, c) + 1, Len(s))>>

\* s.split(c)
RECURSIVE Split(_, _)
Split(s, c) ==
    IF Find(s, c) = 0 THEN <<s>>
    ELSE <<SubSeq(s, 1, Find(s, c) - 1)>> \o Split(SubSeq(s, Find(s, c) + 1, Len(s)), c)

\* ------------------------------------------------- webob: Request.GET / .POST

\* The %XX escapes of the characters requests of the model are written with.
PercentCode ==
    [p \in {<<"5", "F">>, <<"5", "f">>, <<"3", "D">>, <<"3", "d">>, <<"2", "6">>} |->
        IF p \in {<<"5", "F">>, <<"5", "f">>} THEN "_" ELSE IF p \in {<<"3", "D">>, <<"3", "d">>} THEN "=" ELSE "&"]

\* unquote(s.replace('+', ' '))
RECURSIVE Unquote(_)
Unquote(s) ==
    IF s = <<>> THEN <<>>
    ELSE IF s[1] = "+" THEN <<" ">> \o Unquote(Tail(s))
    ELSE IF s[1] = "%" /\ Len(s) >= 3 /\ <<s[2], s[3]>> \in DOMAIN PercentCode
         THEN <<PercentCode[<<s[2], s[3]>>]>> \o Unquote(SubSeq(s, 4, Len(s)))
    ELSE <<s[1]>> \o Unquote(Tail(s))

\* One name=value field: the name and the value, decoded; a field without '='
\* has the empty value (keep_blank_values).
Field(nv) ==
    LET parts == Split1(nv, "=")
    IN  <<Unquote(parts[1]), IF Len(parts) = 2 THEN Unquote(parts[2]) ELSE <<>>>>

\* parse_qsl(s, keep_blank_values=True): the fields in order, empty ones skipped.
ParseQsl(s) ==
    LET segs == Split(s, "&")
    IN  [i \in 1..Len(SelectSeq(segs, LAMBDA x : x # <<>>)) |->
            Field(SelectSeq(segs, LAMBDA x : x # <<>>)[i])]

\* key in multidict
HasKey(fields, key) == \E i \in 1..Len(fields) : fields[i][1] = key

\* multidict[key]: the value of the last field named key
GetItem(fields, key) ==
    fields[CHOOSE i \in 1..Len(fields) :
              fields[i][1] = key /\ \A j \in (i + 1)..Len(fields) : fields[j][1] # key][2]

KeyMethod == <<"_", "m", "e", "t", "h", "o", "d">>

\* Request(environ).GET: the parameters of QUERY_STRING
RequestGET(env) ==
    ParseQsl(IF env.QUERY_STRING = Absent THEN <<>> ELSE env.QUERY_STRING)

\* Request(environ).POST: the fields of the submitted form (the body, read
\* from wsgi.input, written here name=value&... for both form content types)
RequestPOST(env) == ParseQsl(env.body)

\* --------------------------------------------------------------- is_form_post

FormUrlencoded == <<"a", "p", "p", "l", "i", "c", "a", "t", "i", "o", "n", "/", "x", "-", "w", "w", "w", "-", "f", "o", "r", "m", "-", "u", "r", "l", "e", "n", "c", "o", "d", "e", "d">>

MultipartFormData == <<"m", "u", "l", "t", "i", "p", "a", "r", "t", "/", "f", "o", "r", "m", "-", "d", "a", "t", "a">>

\* is_form_post without lower(): the content type is compared as it was sent.
is_form_post_as_sent(env) ==
    LET raw == IF env.CONTENT_TYPE = Absent THEN <<>> ELSE env.CONTENT_TYPE
        content_type == IF Contains(<<";">>, raw) THEN Split1(raw, ";")[1] ELSE raw
    IN  content_type \in {FormUrlencoded, MultipartFormData}

is_form_post(env) ==
    LET raw == IF env.CONTENT_TYPE = Absent THEN <<>> ELSE env.CONTENT_TYPE
        lowered == Lower(raw)
        content_type == IF Contains(<<";">>, lowered) THEN Split1(lowered, ";")[1] ELSE lowered
    IN  content_type \in {FormUrlencoded, MultipartFormData}

\* ------------------------------------------------------------ method override

POST == <<"P", "O", "S", "T">>

\* if old_method: (None and '' are false)
Truthy(s) == s # None /\ s # <<>>

\* The override step without the test '_method' in req.GET: the parameter is
\* read with a default as soon as the text _method is in the query string.
method_override_untested(env, enabled) ==
    LET qs == IF env.QUERY_STRING = Absent THEN <<>> ELSE env.QUERY_STRING
        same(parsed) == [old_method |-> None, method |-> env.REQUEST_METHOD,
                         wrote |-> FALSE, parsed |-> parsed]
        to(fields, parsed) == [old_method |-> env.REQUEST_METHOD,
                               method |-> IF HasKey(fields, KeyMethod)
                                          THEN Upper(GetItem(fields, KeyMethod)) ELSE <<>>,
                               wrote |-> TRUE, parsed |-> parsed]
    IN  IF ~enabled THEN same({})
        ELSE IF Contains(KeyMethod, qs) THEN to(RequestGET(env), {"GET"})
        ELSE IF env.REQUEST_METHOD = POST /\ is_form_post(env)
             THEN IF HasKey(RequestPOST(env), KeyMethod)
                  THEN to(RequestPOST(env), {"POST"}) ELSE same({"POST"})
        ELSE same({})

\* The override step with the whole detection given up when QUERY_STRING is
\* missing.
method_override_needs_query(env, enabled) ==
    LET qs == IF env.QUERY_STRING = Absent THEN <<>> ELSE env.QUERY_STRING
        same(parsed) == [old_method |-> None, method |-> env.REQUEST_METHOD,
                         wrote |-> FALSE, parsed |-> parsed]
        to(fields, parsed) == [old_method |-> env.REQUEST_METHOD,
                               method |-> Upper(GetItem(fields, KeyMethod)),
                               wrote |-> TRUE, parsed |-> parsed]
    IN  IF ~enabled \/ env.QUERY_STRING = Absent THEN same({})
        ELSE IF Contains(KeyMethod, qs)
             THEN IF HasKey(RequestGET(env), KeyMethod)
                  THEN to(RequestGET(env), {"GET"}) ELSE same({"GET"})
        ELSE IF env.REQUEST_METHOD = POST /\ is_form_post(env)
             THEN IF HasKey(RequestPOST(env), KeyMethod)
                  THEN to(RequestPOST(env), {"POST"}) ELSE same({"POST"})
        ELSE same({})

\* The override step with the form body looked at before the query string.
method_override_form_first(env, enabled) ==
    LET qs == IF env.QUERY_STRING = Absent THEN <<>> ELSE env.QUERY_STRING
        same(parsed) == [old_method |-> None, method |-> env.REQUEST_METHOD,
                         wrote |-> FALSE, parsed |-> parsed]
        to(fields, parsed) == [old_method |-> env.REQUEST_METHOD,
                               method |-> Upper(GetItem(fields, KeyMethod)),
                               wrote |-> TRUE, parsed |-> parsed]
    IN  IF ~enabled THEN same({})
        ELSE IF env.REQUEST_METHOD = POST /\ is_form_post(env)
             THEN IF HasKey(RequestPOST(env), KeyMethod)
                  THEN to(RequestPOST(env), {"POST"}) ELSE same({"POST"})
        ELSE IF Contains(KeyMethod, qs)
             THEN IF HasKey(RequestGET(env), KeyMethod)
                  THEN to(RequestGET(env), {"GET"}) ELSE same({"GET"})
        ELSE same({})

\* __call__, the override step: old_method and REQUEST_METHOD after it,
\* whether REQUEST_METHOD was assigned, and which of req.GET and req.POST
\* were parsed.
method_override(env, enabled) ==
    LET qs == IF env.QUERY_STRING = Absent THEN <<>> ELSE env.QUERY_STRING
        same(parsed) == [old_method |-> None, method |-> env.REQUEST_METHOD,
                         wrote |-> FALSE, parsed |-> parsed]
        to(fields, parsed) == [old_method |-> env.REQUEST_METHOD,
                               method |-> Upper(GetItem(fields, KeyMethod)),
                               wrote |-> TRUE, parsed |-> parsed]
    IN  IF ~enabled THEN same({})
        ELSE IF Contains(KeyMethod, qs)
             THEN IF HasKey(RequestGET(env), KeyMethod)
                  THEN to(RequestGET(env), {"GET"}) ELSE same({"GET"})
        ELSE IF env.REQUEST_METHOD = POST /\ is_form_post(env)
             THEN IF HasKey(RequestPOST(env), KeyMethod)
                  THEN to(RequestPOST(env), {"POST"}) ELSE same({"POST"})
        ELSE same({})

\* ------------------------------------------------ the route table (the mapper)

\* A match dict: Python None, or the set of its (key, value) items.
NoMatch == [none |-> TRUE, items |-> {}]

Dict(items) == [none |-> FALSE, items |-> items]

\* not match
Falsy(m) == m.none \/ m.items = {}

\* key in match
InDict(m, key) == \E kv \in m.items : kv[1] = key

\* match.get(key)
DictGet(m, key) ==
    IF InDict(m, key) THEN (CHOOSE kv \in m.items : kv[1] = key)[2] ELSE None

\* The routes of the mapper, in the order they are tried:
\*   1  /old/{id}             redirect, status 302
\*   2  /mv/*path_info        redirect, status 301
\*   3  /item  (PUT)          action=update
\*   4  /item  (DELETE)       action=delete
\*   5  /item  (GET)          action=show
\*   6  /none                 path_info=None (a default)
\*   7  /{section}/*path_info
Routes == 1..7

route_redirect(route) == route \in {1, 2}

route_redirect_status(route) == IF route = 1 THEN "302 Found" ELSE "301 Moved Permanently"

\* mapper.routematch: None, or the match dict and the route of the first
\* route that matches the path and the method.
routematch(path, method) ==
    LET rest(p) == SubSeq(path, Len(p) + 1, Len(path))
        slash2 == Find(Tail(path), "/") + 1
    IN  IF StartsWith(path, <<"/", "o", "l", "d", "/">>) /\ rest(<<"/", "o", "l", "d", "/">>) # <<>> /\ Find(rest(<<"/", "o", "l", "d", "/">>), "/") = 0
        THEN [match |-> Dict({<<"id", rest(<<"/", "o", "l", "d", "/">>)>>}), route |-> 1]
        ELSE IF StartsWith(path, <<"/", "m", "v", "/">>)
        THEN [match |-> Dict({<<"path_info", rest(<<"/", "m", "v", "/">>)>>}), route |-> 2]
        ELSE IF path = <<"/", "i", "t", "e", "m">> /\ method = <<"P", "U", "T">>
        THEN [match |-> Dict({<<"action", <<"u", "p", "d", "a", "t", "e">>>>}), route |-> 3]
        ELSE IF path = <<"/", "i", "t", "e", "m">> /\ method = <<"D", "E", "L", "E", "T", "E">>
        THEN [match |-> Dict({<<"action", <<"d", "e", "l", "e", "t", "e">>>>}), route |-> 4]
        ELSE IF path = <<"/", "i", "t", "e", "m">> /\ method = <<"G", "E", "T">>
        THEN [match |-> Dict({<<"action", <<"s", "h", "o", "w">>>>}), route |-> 5]
        ELSE IF path = <<"/", "n", "o", "n", "e">>
        THEN [match |-> Dict({<<"path_info", None>>}), route |-> 6]
        ELSE IF StartsWith(path, <<"/">>) /\ slash2 > 2
        THEN [match |-> Dict({<<"section", SubSeq(path, 2, slash2 - 1)>>,
                              <<"path_info", SubSeq(path, slash2 + 1, Len(path))>>}),
              route |-> 7]
        ELSE [match |-> NoMatch, route |-> NoRoute]

\* The match contexts: the one all workers share, and one per worker for a
\* deployment that isolates them.
Contexts == {"shared"} \cup Workers

\* request_config() as the worker w gets it
context_of(w) == IF deployment = "isolated" THEN w ELSE "shared"

\* request_config(): setting config.environ binds the environment to the
\* mapper, matches it against the mapper and keeps the result for the reads
\* that follow.
load_wsgi_environ(env, id) ==
    [environ |-> id,
     mapper_dict |-> routematch(env.PATH_INFO, env.REQUEST_METHOD).match,
     route |-> routematch(env.PATH_INFO, env.REQUEST_METHOD).route]

\* ------------------------------------------------------------- URLGenerator

NoUrl == [mapper |-> "", environ |-> 0, serial |-> 0]

\* URLGenerator(self.mapper, environ): a new object each time
URLGenerator(env_id, serial) == [mapper |-> "mapper", environ |-> env_id, serial |-> serial]

\* url(name, **match): the generated URL, a function of the generator's
\* environment, the route name and the variables
generate(url, name, match) == <<"url", url.environ, name, match.items>>

\* '_redirect_%s' % id(route)
route_name(route) == <<"_redirect_", route>>

\* ---------------------------------------------------------------- path rewrite

\* re.sub(r'^(.*?)/' + re.escape(newpath) + '$', r'\1', oldpath): the shortest
\* prefix without a newline ('.' matches none) that is followed by '/' and
\* newpath up to the end, or up to a last newline ('$' matches before it too),
\* replaces what was matched; oldpath is returned as it is when none matches.
strip_remainder(oldpath, newpath) ==
    LET tail(k) == SubSeq(oldpath, k + 1, Len(oldpath))
        dots(k) == \A i \in 1..k : oldpath[i] # "\n"
        fits(k) == dots(k) /\ tail(k) \in {<<"/">> \o newpath, <<"/">> \o newpath \o <<"\n">>}
        ks == {k \in 0..Len(oldpath) : fits(k)}
        k0 == CHOOSE k \in ks : \A j \in ks : k <= j
    IN  IF ks = {} THEN oldpath
        ELSE IF tail(k0) = <<"/">> \o newpath THEN SubSeq(oldpath, 1, k0)
        ELSE SubSeq(oldpath, 1, k0) \o <<"\n">>

\* The path rewrite of __call__: PATH_INFO and SCRIPT_NAME after it.
path_rewrite(env, match) ==
    LET oldpath == env.PATH_INFO
        got == DictGet(match, "path_info")
        newpath == IF got = None \/ got = <<>> THEN <<>> ELSE got
    IN  [PATH_INFO |-> IF StartsWith(newpath, <<"/">>) THEN newpath ELSE <<"/">> \o newpath,
         SCRIPT_NAME |-> env.SCRIPT_NAME \o strip_remainder(oldpath, newpath)]

\* ------------------------------------------------------------ the environment

Env(method, qs, content_type, body, path, script_name) ==
    [REQUEST_METHOD |-> method, QUERY_STRING |-> qs, CONTENT_TYPE |-> content_type,
     body |-> body, PATH_INFO |-> path, SCRIPT_NAME |-> script_name,
     keys |-> {}, routing_args |-> <<NoUrl, NoMatch>>, route |-> NoRoute, url |-> NoUrl]

NoEnv == Env(<<>>, Absent, Absent, <<>>, <<>>, <<>>)

NoResponse == <<"no response">>

\* no exception leaves __call__
NoError == <<"no error">>

NoLocals ==
    [old_method |-> None, match |-> NoMatch, route |-> NoRoute, response |-> NoResponse,
     error |-> NoError]

NoTrace ==
    [match_method |-> None, writes |-> 0, parsed |-> {}, started |-> <<>>, app_calls |-> 0,
     app_outcome |-> "none"]

NoConfig == [environ |-> 0, mapper_dict |-> NoMatch, route |-> NoRoute]

\* mapper.environ when the attribute is not set
Unbound == 0

\* what the wrapped application answers
AppResponse(id) == <<"app response", id>>

\* what the wrapped application raises when it fails
AppError(id) == <<"app error", id>>

\* ------------------------------------------------------------------- requests

GET == <<"G", "E", "T">>

Methods == {<<>>, GET, POST, <<"p", "o", "s", "t">>}

QueryStrings ==
    {Absent, <<>>, <<"_", "m", "e", "t", "h", "o", "d", "=", "p", "u", "t">>, <<"x", "_", "m", "e", "t", "h", "o", "d", "=", "1">>, <<"_", "m", "e", "t", "h", "o", "d">>, <<"%", "5", "F", "m", "e", "t", "h", "o", "d", "=", "p", "u", "t">>,
     <<"a", "=", "1", "&", "_", "m", "e", "t", "h", "o", "d", "=", "d", "e", "l", "e", "t", "e", "&", "_", "m", "e", "t", "h", "o", "d", "=", "p", "u", "t">>}

ContentTypes ==
    {Absent, FormUrlencoded, MultipartFormData, <<"t", "e", "x", "t", "/", "p", "l", "a", "i", "n">>,
     <<"A", "p", "p", "l", "i", "c", "a", "t", "i", "o", "n", "/", "X", "-", "W", "W", "W", "-", "F", "o", "r", "m", "-", "U", "r", "l", "e", "n", "c", "o", "d", "e", "d", ";", " ", "c", "h", "a", "r", "s", "e", "t", "=", "U", "T", "F", "-", "8">>,
     <<"m", "u", "l", "t", "i", "p", "a", "r", "t", "/", "f", "o", "r", "m", "-", "d", "a", "t", "a", "2">>, <<"t", "e", "x", "t", "/", "h", "t", "m", "l", ";", "m", "u", "l", "t", "i", "p", "a", "r", "t", "/", "f", "o", "r", "m", "-", "d", "a", "t", "a">>}

Bodies == {<<>>, <<"_", "m", "e", "t", "h", "o", "d", "=", "D", "E", "L", "E", "T", "E">>}

Paths ==
    {<<"/", "b", "l", "o", "g", "/", "a", "/", "b">>, <<"/", "b", "l", "o", "g", "/">>, <<"/", "b", "l", "\n", "g", "/", "a">>, <<"/", "x", "/", "/", "a">>, <<"/", "o", "l", "d", "/", "7">>, <<"/", "m", "v", "/", "a">>,
     <<"/", "n", "o", "n", "e">>, <<"/", "n", "o", "m", "a", "t", "c", "h">>, <<"/", "i", "t", "e", "m">>}

ScriptNames == {<<>>, <<"/", "a", "p", "p">>}

\* Requests that differ in what the override step reads, and requests that
\* differ in what the matcher and the path rewrite read.
OverrideRequests ==
    {Env(m, qs, ct, b, <<"/", "i", "t", "e", "m">>, <<>>) :
        m \in Methods, qs \in QueryStrings, ct \in ContentTypes, b \in Bodies}

PathRequests ==
    {Env(GET, qs, Absent, <<>>, p, s) :
        qs \in {Absent, <<"_", "m", "e", "t", "h", "o", "d", "=", "p", "u", "t">>}, p \in Paths, s \in ScriptNames}

Requests == OverrideRequests \cup PathRequests

ConcurrentRequests ==
    {Env(GET, qs, Absent, <<>>, p, <<>>) :
        qs \in {Absent, <<"_", "m", "e", "t", "h", "o", "d", "=", "p", "u", "t">>}, p \in {<<"/", "o", "l", "d", "/", "7">>, <<"/", "i", "t", "e", "m">>}}
    \cup {Env(GET, Absent, Absent, <<>>, <<"/", "n", "o", "m", "a", "t", "c", "h">>, <<>>)}

\* -------------------------------------------------------------------- __call__

Setup ==
    /\ mw \in [singleton : BOOLEAN, use_method_override : BOOLEAN, path_info : BOOLEAN]
    /\ pc = [w \in Workers |-> "idle"]
    /\ environ = [w \in Workers |-> NoEnv]
    /\ entry = [w \in Workers |-> NoEnv]
    /\ locals = [w \in Workers |-> NoLocals]
    /\ trace = [w \in Workers |-> NoTrace]
    /\ reqid = [w \in Workers |-> 0]
    /\ config = [c \in Contexts |-> NoConfig]
    /\ mapper_environ = Unbound
    /\ nreq = 0
    /\ nurl = 0

\* One middleware behind a server whose workers share one match context.
Init == Setup /\ deployment = "shared"

\* The same, or every worker with a match context of its own.
InitDeployed == Setup /\ deployment \in {"shared", "isolated"}

\* The server calls the middleware with the environment of a new request.
Begin(w, requests) ==
    /\ pc[w] = "idle"
    /\ nreq < MaxRequests
    /\ \E e \in requests :
        /\ environ' = [environ EXCEPT ![w] = e]
        /\ entry' = [entry EXCEPT ![w] = e]
    /\ nreq' = nreq + 1
    /\ reqid' = [reqid EXCEPT ![w] = nreq + 1]
    /\ locals' = [locals EXCEPT ![w] = NoLocals]
    /\ trace' = [trace EXCEPT ![w] = NoTrace]
    /\ pc' = [pc EXCEPT ![w] = "override"]
    /\ UNCHANGED <<mw, deployment, config, mapper_environ, nurl>>

\* Override that does not look at self.use_method_override.
OverrideAlways(w) ==
    /\ pc[w] = "override"
    /\ LET o == method_override(environ[w], TRUE)
       IN  /\ locals' = [locals EXCEPT ![w].old_method = o.old_method]
           /\ environ' = [environ EXCEPT ![w].REQUEST_METHOD = o.method]
           /\ trace' = [trace EXCEPT ![w].writes = @ + (IF o.wrote THEN 1 ELSE 0),
                                     ![w].parsed = o.parsed]
    /\ pc' = [pc EXCEPT ![w] = "match"]
    /\ UNCHANGED <<mw, deployment, config, mapper_environ, entry, reqid, nreq, nurl>>

\* old_method = None; if self.use_method_override: ...
Override(w) ==
    /\ pc[w] = "override"
    /\ LET o == method_override(environ[w], mw.use_method_override)
       IN  /\ locals' = [locals EXCEPT ![w].old_method = o.old_method]
           /\ environ' = [environ EXCEPT ![w].REQUEST_METHOD = o.method]
           /\ trace' = [trace EXCEPT ![w].writes = @ + (IF o.wrote THEN 1 ELSE 0),
                                     ![w].parsed = o.parsed]
    /\ pc' = [pc EXCEPT ![w] = "match"]
    /\ UNCHANGED <<mw, deployment, config, mapper_environ, entry, reqid, nreq, nurl>>

\* Bind that keeps what the context holds when it is bound already.
BindOnce(w) ==
    /\ pc[w] = "match"
    /\ mw.singleton
    /\ config' = IF config[context_of(w)].environ = 0
                 THEN [config EXCEPT ![context_of(w)] = load_wsgi_environ(environ[w], reqid[w])]
                 ELSE config
    /\ mapper_environ' = reqid[w]
    /\ trace' = [trace EXCEPT ![w].match_method = environ[w].REQUEST_METHOD]
    /\ pc' = [pc EXCEPT ![w] = "read_dict"]
    /\ UNCHANGED <<mw, deployment, environ, locals, entry, reqid, nreq, nurl>>

\* config = request_config(); config.mapper = self.mapper; config.environ = environ
Bind(w) ==
    /\ pc[w] = "match"
    /\ mw.singleton
    /\ config' = [config EXCEPT ![context_of(w)] = load_wsgi_environ(environ[w], reqid[w])]
    /\ mapper_environ' = reqid[w]
    /\ trace' = [trace EXCEPT ![w].match_method = environ[w].REQUEST_METHOD]
    /\ pc' = [pc EXCEPT ![w] = "read_dict"]
    /\ UNCHANGED <<mw, deployment, environ, locals, entry, reqid, nreq, nurl>>

\* match = config.mapper_dict
ReadDict(w) ==
    /\ pc[w] = "read_dict"
    /\ locals' = [locals EXCEPT ![w].match = config[context_of(w)].mapper_dict]
    /\ pc' = [pc EXCEPT ![w] = "read_route"]
    /\ UNCHANGED <<mw, deployment, environ, config, mapper_environ, entry, trace, reqid, nreq, nurl>>

\* ReadRoute from the context all workers share, whatever the deployment.
ReadRouteShared(w) ==
    /\ pc[w] = "read_route"
    /\ locals' = [locals EXCEPT ![w].route = config["shared"].route]
    /\ pc' = [pc EXCEPT ![w] = "publish"]
    /\ UNCHANGED <<mw, deployment, environ, config, mapper_environ, entry, trace, reqid, nreq, nurl>>

\* route = config.route
ReadRoute(w) ==
    /\ pc[w] = "read_route"
    /\ locals' = [locals EXCEPT ![w].route = config[context_of(w)].route]
    /\ pc' = [pc EXCEPT ![w] = "publish"]
    /\ UNCHANGED <<mw, deployment, environ, config, mapper_environ, entry, trace, reqid, nreq, nurl>>

\* DirectMatch that keeps its result on the shared context and reuses it.
DirectMatchCached(w) ==
    /\ pc[w] = "match"
    /\ ~mw.singleton
    /\ config' = IF config[context_of(w)].environ = 0
                 THEN [config EXCEPT ![context_of(w)] = load_wsgi_environ(environ[w], reqid[w])]
                 ELSE config
    /\ locals' = [locals EXCEPT ![w].match = config'[context_of(w)].mapper_dict,
                                ![w].route = config'[context_of(w)].route]
    /\ trace' = [trace EXCEPT ![w].match_method = environ[w].REQUEST_METHOD]
    /\ pc' = [pc EXCEPT ![w] = "publish"]
    /\ UNCHANGED <<mw, deployment, environ, mapper_environ, entry, reqid, nreq, nurl>>

\* results = self.mapper.routematch(environ=environ); match, route = ...
DirectMatch(w) ==
    /\ pc[w] = "match"
    /\ ~mw.singleton
    /\ LET results == routematch(environ[w].PATH_INFO, environ[w].REQUEST_METHOD)
       IN  locals' = [locals EXCEPT ![w].match = results.match, ![w].route = results.route]
    /\ trace' = [trace EXCEPT ![w].match_method = environ[w].REQUEST_METHOD]
    /\ pc' = [pc EXCEPT ![w] = "publish"]
    /\ UNCHANGED <<mw, deployment, environ, config, mapper_environ, entry, reqid, nreq, nurl>>

\* Publish without "if not match: match = {}".
PublishNoDefault(w) ==
    /\ pc[w] = "publish"
    /\ LET old_method == locals[w].old_method
           match == locals[w].match
           url == URLGenerator(reqid[w], nurl + 1)
       IN  /\ locals' = [locals EXCEPT ![w].match = match]
           /\ environ' = [environ EXCEPT
                  ![w].REQUEST_METHOD = IF Truthy(old_method) THEN old_method ELSE @,
                  ![w].routing_args = <<url, match>>,
                  ![w].route = locals[w].route,
                  ![w].url = url,
                  ![w].keys = @ \cup {"wsgiorg.routing_args", "routes.route", "routes.url"}]
           /\ trace' = [trace EXCEPT
                  ![w].writes = @ + (IF Truthy(old_method) THEN 1 ELSE 0)]
    /\ nurl' = nurl + 1
    /\ pc' = [pc EXCEPT ![w] = "dispatch"]
    /\ UNCHANGED <<mw, deployment, config, mapper_environ, entry, reqid, nreq>>

\* Publish that builds no generator of its own for a redirect route.
PublishNoUrlOnRedirect(w) ==
    /\ pc[w] = "publish"
    /\ LET old_method == locals[w].old_method
           match == IF Falsy(locals[w].match) THEN Dict({}) ELSE locals[w].match
           url == IF locals[w].route # NoRoute /\ route_redirect(locals[w].route)
                  THEN URLGenerator(0, 0) ELSE URLGenerator(reqid[w], nurl + 1)
       IN  /\ locals' = [locals EXCEPT ![w].match = match]
           /\ environ' = [environ EXCEPT
                  ![w].REQUEST_METHOD = IF Truthy(old_method) THEN old_method ELSE @,
                  ![w].routing_args = <<url, match>>,
                  ![w].route = locals[w].route,
                  ![w].url = url,
                  ![w].keys = @ \cup {"wsgiorg.routing_args", "routes.route", "routes.url"}]
           /\ trace' = [trace EXCEPT
                  ![w].writes = @ + (IF Truthy(old_method) THEN 1 ELSE 0)]
    /\ nurl' = nurl + 1
    /\ pc' = [pc EXCEPT ![w] = "dispatch"]
    /\ UNCHANGED <<mw, deployment, config, mapper_environ, entry, reqid, nreq>>

\* if old_method: restore; if not match: match = {}; url = URLGenerator(...);
\* environ['wsgiorg.routing_args'], ['routes.route'], ['routes.url'] = ...
Publish(w) ==
    /\ pc[w] = "publish"
    /\ LET old_method == locals[w].old_method
           match == IF Falsy(locals[w].match) THEN Dict({}) ELSE locals[w].match
           url == URLGenerator(reqid[w], nurl + 1)
       IN  /\ locals' = [locals EXCEPT ![w].match = match]
           /\ environ' = [environ EXCEPT
                  ![w].REQUEST_METHOD = IF Truthy(old_method) THEN old_method ELSE @,
                  ![w].routing_args = <<url, match>>,
                  ![w].route = locals[w].route,
                  ![w].url = url,
                  ![w].keys = @ \cup {"wsgiorg.routing_args", "routes.route", "routes.url"}]
           /\ trace' = [trace EXCEPT
                  ![w].writes = @ + (IF Truthy(old_method) THEN 1 ELSE 0)]
    /\ nurl' = nurl + 1
    /\ pc' = [pc EXCEPT ![w] = "dispatch"]
    /\ UNCHANGED <<mw, deployment, config, mapper_environ, entry, reqid, nreq>>

\* Redirect without its return: the response is started and the application
\* is called all the same.
RedirectNoReturn(w) ==
    /\ pc[w] = "dispatch"
    /\ locals[w].route # NoRoute /\ route_redirect(locals[w].route)
    /\ LET location == generate(environ[w].url, route_name(locals[w].route), locals[w].match)
       IN  trace' = [trace EXCEPT
                        ![w].started = Append(@,
                            <<route_redirect_status(locals[w].route),
                              <<<<"Content-Type", "text/plain; charset=utf8">>,
                                <<"Location", location>>>>>>),
                        ![w].app_calls = @ + 1]
    /\ pc' = [pc EXCEPT ![w] = "app"]
    /\ UNCHANGED <<mw, deployment, environ, locals, config, mapper_environ, entry, reqid, nreq, nurl>>

\* if route and route.redirect: start_response(...); return []
Redirect(w) ==
    /\ pc[w] = "dispatch"
    /\ locals[w].route # NoRoute /\ route_redirect(locals[w].route)
    /\ LET location == generate(environ[w].url, route_name(locals[w].route), locals[w].match)
       IN  trace' = [trace EXCEPT ![w].started = Append(@,
                        <<route_redirect_status(locals[w].route),
                          <<<<"Content-Type", "text/plain; charset=utf8">>,
                            <<"Location", location>>>>>>)]
    /\ locals' = [locals EXCEPT ![w].response = <<>>]
    /\ pc' = [pc EXCEPT ![w] = "returned"]
    /\ UNCHANGED <<mw, deployment, environ, config, mapper_environ, entry, reqid, nreq, nurl>>

\* CallApp without the test of the redirect route before it.
CallAppUnguarded(w) ==
    /\ pc[w] = "dispatch"
    /\ environ' =
          IF mw.path_info /\ InDict(locals[w].match, "path_info")
          THEN [environ EXCEPT
                  ![w].PATH_INFO = path_rewrite(environ[w], locals[w].match).PATH_INFO,
                  ![w].SCRIPT_NAME = path_rewrite(environ[w], locals[w].match).SCRIPT_NAME]
          ELSE environ
    /\ trace' = [trace EXCEPT ![w].app_calls = @ + 1]
    /\ pc' = [pc EXCEPT ![w] = "app"]
    /\ UNCHANGED <<mw, deployment, locals, config, mapper_environ, entry, reqid, nreq, nurl>>

\* CallApp that rewrites the path whatever self.path_info says.
CallAppRewriteAlways(w) ==
    /\ pc[w] = "dispatch"
    /\ ~(locals[w].route # NoRoute /\ route_redirect(locals[w].route))
    /\ environ' =
          IF InDict(locals[w].match, "path_info")
          THEN [environ EXCEPT
                  ![w].PATH_INFO = path_rewrite(environ[w], locals[w].match).PATH_INFO,
                  ![w].SCRIPT_NAME = path_rewrite(environ[w], locals[w].match).SCRIPT_NAME]
          ELSE environ
    /\ trace' = [trace EXCEPT ![w].app_calls = @ + 1]
    /\ pc' = [pc EXCEPT ![w] = "app"]
    /\ UNCHANGED <<mw, deployment, locals, config, mapper_environ, entry, reqid, nreq, nurl>>

\* if self.path_info and 'path_info' in match: ...; self.app(environ, start_response)
CallApp(w) ==
    /\ pc[w] = "dispatch"
    /\ ~(locals[w].route # NoRoute /\ route_redirect(locals[w].route))
    /\ environ' =
          IF mw.path_info /\ InDict(locals[w].match, "path_info")
          THEN [environ EXCEPT
                  ![w].PATH_INFO = path_rewrite(environ[w], locals[w].match).PATH_INFO,
                  ![w].SCRIPT_NAME = path_rewrite(environ[w], locals[w].match).SCRIPT_NAME]
          ELSE environ
    /\ trace' = [trace EXCEPT ![w].app_calls = @ + 1]
    /\ pc' = [pc EXCEPT ![w] = "app"]
    /\ UNCHANGED <<mw, deployment, locals, config, mapper_environ, entry, reqid, nreq, nurl>>

\* response = self.app(...) returns
AppReturn(w) ==
    /\ pc[w] = "app"
    /\ locals' = [locals EXCEPT ![w].response = AppResponse(reqid[w])]
    /\ trace' = [trace EXCEPT ![w].app_outcome = "returned"]
    /\ pc' = [pc EXCEPT ![w] = "cleanup"]
    /\ UNCHANGED <<mw, deployment, environ, config, mapper_environ, entry, reqid, nreq, nurl>>

\* AppRaise with the failure caught: __call__ goes on to the cleanup and
\* returns.
AppRaiseSwallowed(w) ==
    /\ pc[w] = "app"
    /\ trace' = [trace EXCEPT ![w].app_outcome = "raised"]
    /\ locals' = [locals EXCEPT ![w].response = <<>>]
    /\ pc' = [pc EXCEPT ![w] = "cleanup"]
    /\ UNCHANGED <<mw, deployment, environ, config, mapper_environ, entry, reqid, nreq, nurl>>

\* self.app(...) raises: nothing in __call__ handles it, __call__ is left
AppRaise(w) ==
    /\ pc[w] = "app"
    /\ trace' = [trace EXCEPT ![w].app_outcome = "raised"]
    /\ locals' = [locals EXCEPT ![w].error = AppError(reqid[w])]
    /\ pc' = [pc EXCEPT ![w] = "raised"]
    /\ UNCHANGED <<mw, deployment, environ, config, mapper_environ, entry, reqid, nreq, nurl>>

\* try: del self.mapper.environ / except AttributeError: pass; return response
Cleanup(w) ==
    /\ pc[w] = "cleanup"
    /\ mapper_environ' = Unbound
    /\ pc' = [pc EXCEPT ![w] = "returned"]
    /\ UNCHANGED <<mw, deployment, environ, locals, config, entry, trace, reqid, nreq, nurl>>

\* The server is done with the request; the worker is free for the next one.
Finish(w) ==
    /\ pc[w] \in {"returned", "raised"}
    /\ pc' = [pc EXCEPT ![w] = "idle"]
    /\ environ' = [environ EXCEPT ![w] = NoEnv]
    /\ entry' = [entry EXCEPT ![w] = NoEnv]
    /\ locals' = [locals EXCEPT ![w] = NoLocals]
    /\ trace' = [trace EXCEPT ![w] = NoTrace]
    /\ reqid' = [reqid EXCEPT ![w] = 0]
    /\ UNCHANGED <<mw, deployment, config, mapper_environ, nreq, nurl>>

Step(w) ==
    \/ Override(w)
    \/ Bind(w)
    \/ ReadDict(w)
    \/ ReadRoute(w)
    \/ DirectMatch(w)
    \/ Publish(w)
    \/ Redirect(w)
    \/ CallApp(w)
    \/ AppReturn(w)
    \/ AppRaise(w)
    \/ Cleanup(w)
    \/ Finish(w)

\* One request at a time (a synchronous server).
Next == Begin(MainWorker, Requests) \/ Step(MainWorker)

Spec == Init /\ [][Next]_vars

\* Requests served by the workers of a threaded server, their steps interleaved.
ConcurrentNext == \E w \in Workers : Begin(w, ConcurrentRequests) \/ Step(w)

ConcurrentSpec == Init /\ [][ConcurrentNext]_vars

\* The threaded server in either deployment.
DeployedSpec == InitDeployed /\ [][ConcurrentNext]_vars

\* ================================================================= properties

\* __call__ has resolved the route and published the result.
Resolved(w) == pc[w] \in {"dispatch", "app", "cleanup", "returned", "raised"}

\* The step of __call__ is over: the redirect was emitted or the wrapped
\* application was called, up to the return.
Over(w) == pc[w] \in {"app", "cleanup", "returned", "raised"}

\* The matcher was invoked for the request of w.
Matched(w) == pc[w] \in {"read_dict", "read_route", "publish"} \/ Resolved(w)

\* The raw query string has a parameter named _method.
QueryCarriesMethod(env) ==
    /\ env.QUERY_STRING # Absent
    /\ Contains(KeyMethod, env.QUERY_STRING)
    /\ HasKey(RequestGET(env), KeyMethod)

\* The form body has a field named _method.
BodyCarriesMethod(env) == HasKey(RequestPOST(env), KeyMethod)

\* What the matcher answers for the request of w: its path and the method the
\* matcher was invoked with.
OwnResult(w) == routematch(entry[w].PATH_INFO, trace[w].match_method)

\* C1: with method override enabled and a _method parameter of value v in the
\* query string, the matcher is invoked under REQUEST_METHOD = upper(v), and
\* once the step is over REQUEST_METHOD is the value it had on entry, whatever
\* that value was.
C1_OverrideThenRestore ==
    \A w \in Workers :
        (mw.use_method_override /\ QueryCarriesMethod(entry[w])) =>
            /\ Matched(w) =>
                  trace[w].match_method = Upper(GetItem(RequestGET(entry[w]), KeyMethod))
            /\ Over(w) => environ[w].REQUEST_METHOD = entry[w].REQUEST_METHOD

\* C2: a request with no _method parameter in the query string and no _method
\* field in the form body is matched under its original method, REQUEST_METHOD
\* is never assigned, and it still has the original value when the
\* application is called and on return.
C2_NoOverrideNoWrite ==
    \A w \in Workers :
        (~QueryCarriesMethod(entry[w]) /\ ~BodyCarriesMethod(entry[w])) =>
            /\ trace[w].writes = 0
            /\ environ[w].REQUEST_METHOD = entry[w].REQUEST_METHOD
            /\ Matched(w) => trace[w].match_method = entry[w].REQUEST_METHOD

C2_Witness ==
    \E w \in Workers :
        /\ pc[w] = "returned"
        /\ trace[w].app_calls = 1
        /\ mw.use_method_override
        /\ entry[w].REQUEST_METHOD = POST
        /\ is_form_post(entry[w])
        /\ entry[w].QUERY_STRING = <<"x", "_", "m", "e", "t", "h", "o", "d", "=", "1">>
        /\ ~QueryCarriesMethod(entry[w]) /\ ~BodyCarriesMethod(entry[w])

\* C3: a POST of content type application/x-www-form-urlencoded whose body has
\* the field _method=DELETE is matched under DELETE for every query string
\* without a _method parameter; with content type text/plain it is matched
\* under POST.
C3_FormOverride ==
    \A w \in Workers :
        ( /\ mw.use_method_override
          /\ Matched(w)
          /\ entry[w].REQUEST_METHOD = POST
          /\ BodyCarriesMethod(entry[w])
          /\ GetItem(RequestPOST(entry[w]), KeyMethod) = <<"D", "E", "L", "E", "T", "E">>
          /\ ~QueryCarriesMethod(entry[w]) ) =>
            /\ entry[w].CONTENT_TYPE = FormUrlencoded => trace[w].match_method = <<"D", "E", "L", "E", "T", "E">>
            /\ entry[w].CONTENT_TYPE = <<"t", "e", "x", "t", "/", "p", "l", "a", "i", "n">> => trace[w].match_method = POST

\* s ends with p
EndsWith(s, p) == Len(p) <= Len(s) /\ SubSeq(s, Len(s) - Len(p) + 1, Len(s)) = p

\* The call start_response gets for the redirect route of w.
RedirectCall(w) ==
    <<route_redirect_status(locals[w].route),
      <<<<"Content-Type", "text/plain; charset=utf8">>,
        <<"Location", generate(environ[w].url, <<"_redirect_", locals[w].route>>,
                               environ[w].routing_args[2])>>>>>>

\* C4: when the resolved route is a redirect route, start_response is called
\* exactly once, with the route's redirect_status and the headers Content-Type
\* and Location (the generator's URL for the route's name, which depends on
\* the route alone, and the matched variables); the body returned is empty and
\* the wrapped application is never called.
C4_Redirect ==
    \A w \in Workers :
        (Resolved(w) /\ locals[w].route # NoRoute /\ route_redirect(locals[w].route)) =>
            /\ pc[w] \in {"dispatch", "returned"}
            /\ trace[w].app_calls = 0
            /\ pc[w] = "dispatch" => trace[w].started = <<>>
            /\ pc[w] = "returned" =>
                  /\ trace[w].started = <<RedirectCall(w)>>
                  /\ locals[w].response = <<>>

C4_Witness ==
    \E w \in Workers :
        /\ pc[w] = "returned"
        /\ locals[w].route = 1
        /\ environ[w].routing_args[2] = Dict({<<"id", <<"7">>>>})
        /\ Len(trace[w].started) = 1

\* C5: with path rewriting enabled, a route that is no redirect and matched
\* variables with path_info = r, where the original PATH_INFO is p + '/' + r
\* (r not empty, not starting with '/'), the application is called with
\* PATH_INFO = '/' + r and SCRIPT_NAME = SCRIPT_NAME on entry + p; and for
\* every remainder, empty and None included, the new PATH_INFO starts with '/'.
C5_PathRewrite ==
    \A w \in Workers :
        (mw.path_info /\ Over(w) /\ trace[w].app_calls = 1
            /\ InDict(locals[w].match, "path_info")) =>
            LET r == DictGet(locals[w].match, "path_info")
                orig == entry[w].PATH_INFO
            IN  /\ StartsWith(environ[w].PATH_INFO, <<"/">>)
                /\ (r # None /\ r # <<>> /\ r[1] # "/" /\ EndsWith(orig, <<"/">> \o r)) =>
                      /\ environ[w].PATH_INFO = <<"/">> \o r
                      /\ environ[w].SCRIPT_NAME =
                            entry[w].SCRIPT_NAME \o SubSeq(orig, 1, Len(orig) - Len(r) - 1)

\* C6: in both matching modes, when the matcher finds no route for the
\* request, the published variables are an empty mapping (not None, not
\* missing), the published route is None, the middleware starts no response
\* itself, and the application is called exactly once and its response is
\* what __call__ returns.
C6_NoMatch ==
    \A w \in Workers :
        (Resolved(w) /\ OwnResult(w).route = NoRoute) =>
            /\ {"wsgiorg.routing_args", "routes.route"} \subseteq environ[w].keys
            /\ environ[w].routing_args[2] = Dict({})
            /\ environ[w].route = NoRoute
            /\ trace[w].started = <<>>
            /\ trace[w].app_calls = (IF pc[w] = "dispatch" THEN 0 ELSE 1)
            /\ pc[w] = "returned" => locals[w].response = AppResponse(reqid[w])

C6_Witness ==
    \E w \in Workers :
        /\ pc[w] = "returned"
        /\ mw.singleton
        /\ OwnResult(w).route = NoRoute
        /\ entry[w].PATH_INFO = <<"/", "n", "o", "m", "a", "t", "c", "h">>
        /\ trace[w].app_calls = 1

\* if not match: match = {}
Normal(match) == IF Falsy(match) THEN Dict({}) ELSE match

\* C7: in singleton mode, requests served one after another on the same
\* middleware each get published the matcher's result for their own
\* environment, never one computed for an earlier request.
C7_SequentialOwnResult ==
    \A w \in Workers :
        (mw.singleton /\ Resolved(w)) =>
            /\ environ[w].routing_args[2] = Normal(OwnResult(w).match)
            /\ environ[w].route = OwnResult(w).route

\* A second request, after one that matched another route.
C7_Witness ==
    \E w \in Workers :
        /\ mw.singleton
        /\ pc[w] = "cleanup"
        /\ reqid[w] = 2
        /\ environ[w].route = 5
        /\ mapper_environ = 2

\* C8: after every request that reached the wrapped application, whether it
\* returned or raised, mapper.environ has been cleared when __call__ is left;
\* so no binding of a finished request is set when a new request starts.
C8_BindingCleared ==
    \A w \in Workers :
        /\ (pc[w] \in {"returned", "raised"} /\ trace[w].app_calls = 1) =>
              mapper_environ = Unbound
        /\ pc[w] = "override" => mapper_environ = Unbound

\* C9: on every request a new URL generator bound to the mapper and to this
\* request's environment is constructed, and before the redirect check and
\* the call of the application the environment holds wsgiorg.routing_args =
\* (generator, variables), routes.route = the route or None, and routes.url =
\* the same generator.
C9_Published ==
    \A w \in Workers :
        Resolved(w) =>
            /\ environ[w].keys = {"wsgiorg.routing_args", "routes.route", "routes.url"}
            /\ environ[w].url = [mapper |-> "mapper", environ |-> reqid[w], serial |-> nurl]
            /\ nurl = nreq
            /\ environ[w].routing_args = <<environ[w].url, locals[w].match>>
            /\ environ[w].route = locals[w].route

C9_Witness ==
    \E w \in Workers :
        /\ pc[w] = "dispatch"
        /\ reqid[w] = 2
        /\ locals[w].route # NoRoute /\ route_redirect(locals[w].route)
        /\ environ[w].url.serial = 2

\* C10: in direct-match mode, however the steps of concurrently served
\* requests interleave, every request gets published the result of
\* mapper.routematch on its own environment.
C10_ConcurrentOwnResult ==
    \A w \in Workers :
        (~mw.singleton /\ Resolved(w)) =>
            /\ environ[w].routing_args[2] = Normal(OwnResult(w).match)
            /\ environ[w].route = OwnResult(w).route

C10_Witness ==
    \E w, v \in Workers :
        /\ ~mw.singleton
        /\ w # v
        /\ reqid[w] < reqid[v]
        /\ pc[w] = "dispatch" /\ pc[v] = "dispatch"
        /\ environ[w].route = 1 /\ environ[v].route = NoRoute

\* C11: with method-override detection disabled the override step has no
\* effect on any request: REQUEST_METHOD is never assigned, neither the query
\* string nor the body is parsed, and the matcher is invoked with the original
\* method.
C11_DisabledNoEffect ==
    \A w \in Workers :
        ~mw.use_method_override =>
            /\ trace[w].writes = 0
            /\ trace[w].parsed = {}
            /\ locals[w].old_method = None
            /\ environ[w].REQUEST_METHOD = entry[w].REQUEST_METHOD
            /\ Matched(w) => trace[w].match_method = entry[w].REQUEST_METHOD

C11_Witness ==
    \E w \in Workers :
        /\ ~mw.use_method_override
        /\ pc[w] = "returned"
        /\ entry[w].REQUEST_METHOD = POST
        /\ entry[w].CONTENT_TYPE = FormUrlencoded
        /\ QueryCarriesMethod(entry[w])
        /\ BodyCarriesMethod(entry[w])

\* The three keys __call__ publishes are in the environment of w.
Published(w) ==
    {"wsgiorg.routing_args", "routes.route", "routes.url"} \subseteq environ[w].keys

\* C12: the steps of a request come in strict order: override, match,
\* restoration of the original method, publication, then the redirect or the
\* (rewrite and) call of the application, then the cleanup; the restoration
\* comes before every branch on the match result, so the redirect path and
\* the application see the original REQUEST_METHOD, never the overridden one.
C12_StrictOrder ==
    \A w \in Workers :
        /\ trace[w].writes > 0 => pc[w] \notin {"idle", "override"}
        /\ Published(w) => (Matched(w) /\ trace[w].match_method # None)
        /\ (trace[w].started # <<>> \/ trace[w].app_calls > 0) => Published(w)
        /\ environ[w].PATH_INFO # entry[w].PATH_INFO => trace[w].app_calls > 0
        /\ Resolved(w) => environ[w].REQUEST_METHOD = entry[w].REQUEST_METHOD

\* The published result of w is the matcher's result for its own request.
OwnPublished(w) ==
    /\ environ[w].routing_args[2] = Normal(OwnResult(w).match)
    /\ environ[w].route = OwnResult(w).route

\* C13: in singleton mode with concurrent requests, binding the environment
\* and reading the variables and the route back are separate steps: when the
\* requests share one context there is an interleaving in which a request
\* publishes variables or a route computed for another request's
\* environment; when every active request has a context of its own, every
\* request publishes its own result.
C13_IsolatedOwnResult ==
    \A w \in Workers :
        (deployment = "isolated" /\ mw.singleton /\ Resolved(w)) => OwnPublished(w)

\* The interleaving of the shared context: w bound first, v bound over it,
\* and w published what was computed for v.
C13_Witness ==
    \E w, v \in Workers :
        /\ deployment = "shared"
        /\ mw.singleton
        /\ w # v
        /\ reqid[w] < reqid[v]
        /\ Resolved(w)
        /\ pc[v] \in {"read_dict", "read_route", "publish"}
        /\ ~OwnPublished(w)
        /\ environ[w].route = routematch(entry[v].PATH_INFO, trace[v].match_method).route

\* The resolved route of w is a redirect route.
Redirecting(w) == locals[w].route # NoRoute /\ route_redirect(locals[w].route)

\* C14: for every request exactly one of two things happens: the middleware
\* starts a redirect response itself, or the wrapped application is called
\* exactly once; the application is called if and only if the resolved route
\* is None or no redirect route, and the middleware calls start_response only
\* on the redirect path.
C14_OneOutcome ==
    \A w \in Workers :
        /\ ~Over(w) => (trace[w].started = <<>> /\ trace[w].app_calls = 0)
        /\ (Over(w) /\ Redirecting(w)) =>
              (Len(trace[w].started) = 1 /\ trace[w].app_calls = 0)
        /\ (Over(w) /\ ~Redirecting(w)) =>
              (trace[w].started = <<>> /\ trace[w].app_calls = 1)

C14_Witness ==
    \E w \in Workers :
        /\ pc[w] = "returned"
        /\ locals[w].route = 5
        /\ trace[w].app_calls = 1
        /\ trace[w].started = <<>>

\* C15: PATH_INFO and SCRIPT_NAME are left as they were on entry unless
\* rewriting is enabled, the resolved route is no redirect route and the
\* matched variables contain path_info; so a redirect route with path_info
\* among its variables, a request without a match and every request with
\* rewriting disabled end with both fields as on entry.
C15_PathFrame ==
    \A w \in Workers :
        ( \/ environ[w].PATH_INFO # entry[w].PATH_INFO
          \/ environ[w].SCRIPT_NAME # entry[w].SCRIPT_NAME ) =>
            /\ Over(w)
            /\ mw.path_info
            /\ ~Redirecting(w)
            /\ InDict(locals[w].match, "path_info")

C15_Witness ==
    \E w \in Workers :
        /\ pc[w] = "returned"
        /\ mw.path_info
        /\ locals[w].route = 2
        /\ InDict(locals[w].match, "path_info")
        /\ environ[w].PATH_INFO = entry[w].PATH_INFO
        /\ environ[w].SCRIPT_NAME = entry[w].SCRIPT_NAME

\* C16: on the path without a redirect __call__ returns the response of the
\* wrapped application as it is, and a failure the application raises is not
\* caught or changed: it leaves __call__ as it was raised.
C16_ResponseUnchanged ==
    \A w \in Workers :
        /\ (pc[w] = "returned" /\ trace[w].app_calls = 1) =>
              /\ trace[w].app_outcome = "returned"
              /\ locals[w].response = AppResponse(reqid[w])
              /\ locals[w].error = NoError
        /\ trace[w].app_outcome = "raised" =>
              /\ pc[w] = "raised"
              /\ locals[w].error = AppError(reqid[w])
              /\ locals[w].response = NoResponse
        /\ pc[w] = "raised" => trace[w].app_outcome = "raised"

C16_Witness ==
    \E w \in Workers :
        /\ pc[w] = "raised"
        /\ trace[w].app_outcome = "raised"
        /\ locals[w].error = AppError(reqid[w])

\* C17: a request without a QUERY_STRING key is processed as if the query
\* string were empty: there is no query override (the query is not even
\* parsed), and the form-body check still runs, so a POSTed HTML form with a
\* _method field is overridden.
C17_MissingQueryString ==
    \A w \in Workers :
        (mw.use_method_override /\ entry[w].QUERY_STRING = Absent /\ Matched(w)) =>
            /\ "GET" \notin trace[w].parsed
            /\ trace[w].match_method =
                  method_override([entry[w] EXCEPT !.QUERY_STRING = <<>>], TRUE).method
            /\ trace[w].match_method =
                  IF /\ entry[w].REQUEST_METHOD = POST
                     /\ is_form_post(entry[w])
                     /\ BodyCarriesMethod(entry[w])
                  THEN Upper(GetItem(RequestPOST(entry[w]), KeyMethod))
                  ELSE entry[w].REQUEST_METHOD

C17_Witness ==
    \E w \in Workers :
        /\ mw.use_method_override
        /\ pc[w] = "returned"
        /\ entry[w].QUERY_STRING = Absent
        /\ entry[w].REQUEST_METHOD = POST
        /\ entry[w].CONTENT_TYPE = FormUrlencoded
        /\ trace[w].match_method = <<"D", "E", "L", "E", "T", "E">>
        /\ trace[w].parsed = {"POST"}

\* What C18 says of the request of w when its query string is one of those
\* the statement is about.
QueryWins(w) ==
    /\ Matched(w) =>
          trace[w].match_method = Upper(GetItem(RequestGET(entry[w]), KeyMethod))
    /\ pc[w] \notin {"idle", "override"} =>
          /\ "POST" \notin trace[w].parsed
          /\ locals[w].old_method = entry[w].REQUEST_METHOD
    /\ pc[w] \in {"match", "read_dict", "read_route", "publish"} => trace[w].writes = 1

Remainder(w) ==
    IF DictGet(locals[w].match, "path_info") = None
    THEN <<>>
    ELSE DictGet(locals[w].match, "path_info")

\* C19: path rewriting preserves the full request address: when the rewrite
\* fires with a remainder r that does not start with '/' and the original
\* PATH_INFO ends with '/' + r (r empty included), SCRIPT_NAME + PATH_INFO
\* after the rewrite equals SCRIPT_NAME + PATH_INFO on entry.
C19_AddressPreserved ==
    \A w \in Workers :
        ( /\ mw.path_info
          /\ Over(w)
          /\ trace[w].app_calls = 1
          /\ InDict(locals[w].match, "path_info")
          /\ ~StartsWith(Remainder(w), <<"/">>)
          /\ EndsWith(entry[w].PATH_INFO, <<"/">> \o Remainder(w)) ) =>
            environ[w].SCRIPT_NAME \o environ[w].PATH_INFO =
                entry[w].SCRIPT_NAME \o entry[w].PATH_INFO

\* The content type as sent, lower-cased and cut at its first ';', is one of
\* the two HTML form types: it starts with the type and either ends there or
\* goes on with ';'.
FormContentType(sent) ==
    LET raw == IF sent = Absent THEN <<>> ELSE sent
    IN  \E t \in {FormUrlencoded, MultipartFormData} :
            /\ StartsWith(Lower(raw), t)
            /\ Len(raw) = Len(t) \/ raw[Len(t) + 1] = ";"

\* C20: is_form_post is true exactly when CONTENT_TYPE (absent read as
\* empty), lower-cased and cut at the first ';', is one of the two HTML form
\* types; the form body is read only when the original method is exactly
\* POST, so a request with another method, a form content type and a _method
\* body field is not overridden.
C20_FormPost ==
    \A w \in Workers :
        pc[w] # "idle" =>
            /\ is_form_post(entry[w]) <=> FormContentType(entry[w].CONTENT_TYPE)
            /\ "POST" \in trace[w].parsed =>
                  entry[w].REQUEST_METHOD = POST /\ is_form_post(entry[w])
            /\ (entry[w].REQUEST_METHOD # POST /\ ~QueryCarriesMethod(entry[w])) =>
                  /\ trace[w].writes = 0
                  /\ Matched(w) => trace[w].match_method = entry[w].REQUEST_METHOD

C20_Witness ==
    \E w \in Workers :
        /\ mw.use_method_override
        /\ pc[w] = "returned"
        /\ entry[w].REQUEST_METHOD = <<"p", "o", "s", "t">>
        /\ entry[w].CONTENT_TYPE = <<"A", "p", "p", "l", "i", "c", "a", "t", "i", "o", "n", "/", "X", "-", "W", "W", "W", "-", "F", "o", "r", "m", "-", "U", "r", "l", "e", "n", "c", "o", "d", "e", "d", ";", " ", "c", "h", "a", "r", "s", "e", "t", "=", "U", "T", "F", "-", "8">>
        /\ entry[w].QUERY_STRING = Absent
        /\ BodyCarriesMethod(entry[w])
        /\ is_form_post(entry[w])
        /\ trace[w].match_method = <<"p", "o", "s", "t">>
        /\ trace[w].parsed = {}

====
